---- MODULE Spec2Model ----
(***************************************************************************)
(* The AI request layer of the article editor: the controller handlers     *)
(* (backend/src/controllers/aiController.ts) on top of the AI service      *)
(* (backend/src/services/aiService.ts).                                    *)
(*                                                                         *)
(* A handler runs in segments separated by its awaits: the entry segment   *)
(* (validation, authentication, tier/length gates) up to the awaited quota *)
(* check, the segment that issues the model call, the segment that follows *)
(* the model's answer (recordUsage), and the segment that parses the text  *)
(* and sends the response.  The language model is the environment: a call  *)
(* either fails or returns one of a small set of texts.                    *)
(***************************************************************************)
EXTENDS Integers, Sequences, FiniteSets, TLC

VARIABLES
    req,       \* the handler invocation in progress (or the last one finished)
    usageLog,  \* usageLog[u][f]: usage records of feature f written while serving user u
    lanes,     \* batch-process: one entry per element of tasks (the promises array)
    results,   \* batch-process: the shared results object
    parser,    \* the title parser of generateTitle, applied to a raw text on its own
    ui         \* the editor page: the Quill editor, its title and the AI assistant panel

vars == <<req, usageLog, lanes, results, parser, ui>>

----------------------------------------------------------------------------
(* Bounds of the model *)

\* sequential feature requests are accepted while the log holds fewer records
MaxRecords == 3
\* longest tasks array of a batch-process request
MaxTasks == 2
\* longest raw text handed to the title parser on its own
MaxRawLen == 5

----------------------------------------------------------------------------
(* Vocabulary *)

MaxContentLength == 10000

FeatureTypes ==
    {"title_generation", "content_optimization", "style_recommendation",
     "article_analysis", "seo_optimization"}

FeatureEndpoints ==
    {"generate-title", "optimize-content", "recommend-style",
     "analyze-article", "seo-suggestions"}

\* the featureType each handler passes to checkUsageLimit and each service
\* method passes to recordUsage
FeatureOf(endpoint) ==
    CASE endpoint = "generate-title"   -> "title_generation"
      [] endpoint = "optimize-content" -> "content_optimization"
      [] endpoint = "recommend-style"  -> "style_recommendation"
      [] endpoint = "analyze-article"  -> "article_analysis"
      [] endpoint = "seo-suggestions"  -> "seo_optimization"

Tiers == {"free", "pro", "enterprise"}
UserIds == {"u1", "u2"}

\* req.user as the upstream authentication leaves it.  An undefined req.user
\* and a user without id both make `req.user?.id` falsy: id = "".
\* subscriptionType "absent" is a user object that carries no subscriptionType.
NoUser == [id |-> "", subscriptionType |-> "absent"]
Users == {NoUser} \cup [id : UserIds, subscriptionType : Tiers \cup {"absent"}]

\* the dailyLimits table of getUsageLimits (-1: unlimited)
DailyLimits(tier, feature) ==
    CASE tier = "free" ->
            (CASE feature = "title_generation"     -> 10
               [] feature = "content_optimization" -> 5
               [] feature = "style_recommendation" -> 3
               [] feature = "article_analysis"     -> 2
               [] feature = "seo_optimization"     -> 2)
      [] tier = "pro" ->
            (CASE feature = "title_generation"     -> 100
               [] feature = "content_optimization" -> 50
               [] feature = "style_recommendation" -> 30
               [] feature = "article_analysis"     -> 20
               [] feature = "seo_optimization"     -> 20)
      [] tier = "enterprise" -> -1

\* the features.batchProcess flag of the same table
BatchProcessFlag(tier) == tier # "free"

\* the other two flags of the table's features
AdvancedAnalysisFlag(tier) == tier # "free"
PrioritySupportFlag(tier) == tier = "enterprise"

\* `req.user?.subscriptionType || 'free'` of getUsageLimits
EffectiveTier(user) ==
    IF user.subscriptionType = "absent" THEN "free" ELSE user.subscriptionType

----------------------------------------------------------------------------
(* Request contents.  A content string is named by what matters of it: its  *)
(* length.  "X10000" and "X10001" stand for strings of that many characters.*)

Contents == {"", "short", "X10000", "X10001"}

StrLength(s) ==
    CASE s = ""       -> 0
      [] s = "short"  -> 5
      [] s = "X10000" -> MaxContentLength
      [] s = "X10001" -> MaxContentLength + 1

\* the length gate with >= for >
ContentTooLongOffByOne(content) == StrLength(content) >= MaxContentLength

\* optimizeContent: `content.length > 10000`
ContentTooLong(content) == StrLength(content) > MaxContentLength

----------------------------------------------------------------------------
(* Request options: req.body.style and req.body.count of generate-title,    *)
(* req.body.tone and req.body.optimization of optimize-content.  "absent"   *)
(* is a body without the property; count is <<>> when absent, <<n>> when    *)
(* the body carries n.  req.body is untyped: a value outside the service's  *)
(* union types reaches the handler like any other.                          *)

NoOptions ==
    [style |-> "absent", count |-> <<>>, tone |-> "absent",
     optimization |-> "absent"]

TitleOptions ==
    {NoOptions,
     [NoOptions EXCEPT !.style = "seo", !.count = <<5>>],
     [NoOptions EXCEPT !.count = <<1>>],
     [NoOptions EXCEPT !.style = "funny", !.count = <<12>>]}

OptimizeOptions ==
    {NoOptions,
     [NoOptions EXCEPT !.tone = "formal", !.optimization = "seo"],
     [NoOptions EXCEPT !.tone = "angry"],
     [NoOptions EXCEPT !.optimization = "speed"]}

\* the option records a request to an endpoint is let carry
OptionsOf(endpoint) ==
    CASE endpoint = "generate-title"   -> TitleOptions
      [] endpoint = "optimize-content" -> OptimizeOptions
      [] OTHER                         -> {NoOptions}

AllOptions == TitleOptions \cup OptimizeOptions

\* destructuring defaults: `style = 'professional'`, `count = 5`,
\* `tone = 'casual'`, `optimization = 'readability'`
StyleOf(options) ==
    IF options.style = "absent" THEN "professional" ELSE options.style
CountOf(options) ==
    IF options.count = <<>> THEN 5 ELSE options.count[1]
ToneOf(options) ==
    IF options.tone = "absent" THEN "casual" ELSE options.tone
OptimizationOf(options) ==
    IF options.optimization = "absent" THEN "readability"
    ELSE options.optimization

\* the count the controller hands to the service: Math.min(count, 10)
Min(a, b) == IF a <= b THEN a ELSE b
ServiceCount(options) == Min(CountOf(options), 10)

\* the lookup tables of the prompts; a key outside a table reads undefined,
\* which the template literal renders as the text "undefined"
StyleKeys == {"creative", "professional", "clickbait", "seo"}
ToneKeys == {"formal", "casual", "humorous", "inspiring"}
OptimizationKeys == {"readability", "engagement", "seo"}

Lookup(keys, key) == IF key \in keys THEN key ELSE "undefined"

\* a prompt by what is interpolated into it: the count (generateTitle only)
\* and the descriptions looked up.  Building a prompt cannot throw.
NoPrompt == [count |-> <<>>, parts |-> <<>>]
TitlePrompt(options) ==
    [count |-> <<ServiceCount(options)>>,
     parts |-> <<Lookup(StyleKeys, StyleOf(options))>>]
OptimizePrompt(options) ==
    [count |-> <<>>,
     parts |-> <<Lookup(ToneKeys, ToneOf(options)),
                 Lookup(OptimizationKeys, OptimizationOf(options))>>]

\* the prompt a service method builds before its try block; the prompts of
\* the other three features interpolate none of the options
BuildPrompt(endpoint, options) ==
    CASE endpoint = "generate-title"   -> TitlePrompt(options)
      [] endpoint = "optimize-content" -> OptimizePrompt(options)
      [] OTHER                         -> NoPrompt

----------------------------------------------------------------------------
(* What the language model can answer.  response.choices[0].message.content *)
(* is a string; an absent (null) content behaves as "" in every service     *)
(* method (`?.split(..) || []`, `|| content`, `|| '[]'`, `|| '{}'`).        *)

\* a three-line text: a title, a whitespace-only line, a padded title
TitleLines == "Title A\n  \n Title B "
\* six titles, one per line
SixTitles == "T1\nT2\nT3\nT4\nT5\nT6"
\* JSON documents of the shape each prompt asks for
StyleJSON == "[{\"templateId\":\"tech\",\"reason\":\"r\",\"confidence\":0.9}]"
AnalysisJSON ==
    "{\"score\":8.5,\"suggestions\":[\"s1\"],\"keywords\":[\"k1\"],\"readabilityLevel\":\"easy\"}"
SeoJSON ==
    "{\"title\":\"t\",\"description\":\"d\",\"keywords\":[\"k1\"],\"suggestions\":[\"s1\"]}"
\* a JSON document cut off by max_tokens
TruncatedJSON == "{\"score\": 8.5, \"sugg"

\* the texts the model is let to answer a feature's prompt with: empty text,
\* text that is no JSON, JSON of a wrong shape, JSON of the right shape
ModelTexts(feature) ==
    CASE feature = "title_generation"     -> {"", TitleLines, SixTitles}
      [] feature = "content_optimization" -> {"", "better text"}
      [] feature = "style_recommendation" ->
            {"", TruncatedJSON, "null", "{}", StyleJSON}
      [] feature = "article_analysis" ->
            {"", TruncatedJSON, "null", StyleJSON, AnalysisJSON}
      [] feature = "seo_optimization" ->
            {"", TruncatedJSON, "null", StyleJSON, AnalysisJSON, SeoJSON}

AllTexts == UNION {ModelTexts(f) : f \in FeatureTypes}

----------------------------------------------------------------------------
(* JSON.parse.  A decoded value is [type, items, fields]: items for an      *)
(* array, fields for an object.  Numbers are kept as their literal text.    *)

JNull == [type |-> "null", items |-> <<>>, fields |-> <<>>]
JArray(items) == [type |-> "array", items |-> items, fields |-> <<>>]
JObject(fields) == [type |-> "object", items |-> <<>>, fields |-> fields]

\* [ok |-> FALSE]: JSON.parse throws SyntaxError
JSONParse(text) ==
    CASE text = "null" -> [ok |-> TRUE, value |-> JNull]
      [] text = "[]"   -> [ok |-> TRUE, value |-> JArray(<<>>)]
      [] text = "{}"   -> [ok |-> TRUE, value |-> JObject(<<>>)]
      [] text = StyleJSON ->
            [ok |-> TRUE,
             value |-> JArray(<<[templateId |-> "tech", reason |-> "r",
                                 confidence |-> "0.9"]>>)]
      [] text = AnalysisJSON ->
            [ok |-> TRUE,
             value |-> JObject([score |-> "8.5", suggestions |-> <<"s1">>,
                                keywords |-> <<"k1">>,
                                readabilityLevel |-> "easy"])]
      [] text = SeoJSON ->
            [ok |-> TRUE,
             value |-> JObject([title |-> "t", description |-> "d",
                                keywords |-> <<"k1">>,
                                suggestions |-> <<"s1">>])]
      [] OTHER -> [ok |-> FALSE, value |-> JNull]

\* `value.name` evaluates without a TypeError (value is not null)
CanRead(value) == value.type # "null"
\* `value.name` is defined
HasField(value, name) == value.type = "object" /\ name \in DOMAIN value.fields

----------------------------------------------------------------------------
(* String.split('\n') and String.trim.  Both work on the characters of a   *)
(* string: a string is taken apart with Chars, and a sequence of characters *)
(* is put together again with Str.                                          *)

\* the characters of the title texts of the model
Chars(text) ==
    CASE text = "" -> <<>>
      [] text = TitleLines ->
            <<"T", "i", "t", "l", "e", " ", "A", "\n", " ", " ", "\n",
              " ", "T", "i", "t", "l", "e", " ", "B", " ">>
      [] text = SixTitles ->
            <<"T", "1", "\n", "T", "2", "\n", "T", "3", "\n",
              "T", "4", "\n", "T", "5", "\n", "T", "6">>

RECURSIVE Str(_)
Str(chars) == IF chars = <<>> THEN "" ELSE Head(chars) \o Str(Tail(chars))

\* the characters String.prototype.trim strips (white space and line
\* terminators)
WhiteSpace == {" ", "\t", "\r", "\n"}

\* text.split('\n'): the pieces between the separators, "" included; a text
\* without separator is one piece
RECURSIVE SplitLines(_)
SplitLines(chars) ==
    LET at == {i \in DOMAIN chars : chars[i] = "\n"}
    IN  IF at = {} THEN <<chars>>
        ELSE LET first == CHOOSE i \in at : \A j \in at : i <= j
             IN  <<SubSeq(chars, 1, first - 1)>>
                    \o SplitLines(SubSeq(chars, first + 1, Len(chars)))

RECURSIVE TrimStart(_)
TrimStart(line) ==
    IF line # <<>> /\ Head(line) \in WhiteSpace
    THEN TrimStart(Tail(line)) ELSE line

RECURSIVE TrimEnd(_)
TrimEnd(line) ==
    IF line # <<>> /\ line[Len(line)] \in WhiteSpace
    THEN TrimEnd(SubSeq(line, 1, Len(line) - 1)) ELSE line

\* line.trim()
Trim(line) == TrimEnd(TrimStart(line))

\* a string as a condition: "" is falsy
Truthy(s) == s # ""

\* the filter with its predicate always true: no line is dropped
KeepEveryLine(line) == TRUE

\* line => line.trim() used as the filter predicate
Keep(line) == Truthy(Str(Trim(line)))

----------------------------------------------------------------------------
(* The service methods after the model has answered.  A service result is   *)
(* [threw, value]: threw means the method's promise rejects.                *)

Returned(value) == [threw |-> FALSE, value |-> value]
Threw == [threw |-> TRUE, value |-> JNull]

\* message.content as the parser gets it: a string (its characters), or
\* absent (null)
Present(chars) == [present |-> TRUE, chars |-> chars]
Absent == [present |-> FALSE, chars |-> <<>>]

\* generateTitle: content?.split('\n').filter(..).map(..) || []
ParseTitleChars(content) ==
    IF ~content.present THEN <<>>
    ELSE LET kept == SelectSeq(SplitLines(content.chars), Keep)
         IN  [i \in 1..Len(kept) |-> Trim(kept[i])]

\* the same on a text of the model, the titles as strings
ParseTitles(text) ==
    LET titles == ParseTitleChars(Present(Chars(text)))
    IN  [i \in DOMAIN titles |-> Str(titles[i])]

\* the answer passed on as it is, without the `|| content`
OptimizedContentAsAnswered(text, content) == text

\* optimizeContent: `response.choices[0].message.content || content`
OptimizedContent(text, content) == IF Truthy(text) THEN text ELSE content

\* the default values the catch blocks of the three JSON features return
\* (their message strings are given in English)
StyleFallback ==
    JArray(<<[templateId |-> "minimalist",
              reason |-> "minimalist suits most content",
              confidence |-> "0.7"]>>)
AnalysisFallback ==
    JObject([score |-> "7.0", suggestions |-> <<"analysis unavailable">>,
             keywords |-> <<>>, readabilityLevel |-> "medium"])
SeoFallback ==
    JObject([title |-> "set the title manually", description |-> "set the description manually",
             keywords |-> <<>>, suggestions |-> <<"seo analysis unavailable">>])

\* every catch block rethrowing, as those of generateTitle and optimizeContent
ServiceCatchRethrow(feature) == Threw

\* the catch block of each service method: generateTitle and optimizeContent
\* throw a new Error, the three JSON features return their default
ServiceCatch(feature) ==
    CASE feature = "title_generation"     -> Threw
      [] feature = "content_optimization" -> Threw
      [] feature = "style_recommendation" -> Returned(StyleFallback)
      [] feature = "article_analysis"     -> Returned(AnalysisFallback)
      [] feature = "seo_optimization"     -> Returned(SeoFallback)

\* recommendStyle: JSON.parse(content || '[]'), then recommendations.length
\* read inside the try
RecommendStyleParse(text) ==
    LET p == JSONParse(IF Truthy(text) THEN text ELSE "[]")
    IN  IF p.ok /\ CanRead(p.value)
        THEN Returned(p.value)
        ELSE ServiceCatch("style_recommendation")

\* analyzeArticle: JSON.parse(content || '{}'), then analysis.score read
\* inside the try
AnalyzeArticleParse(text) ==
    LET p == JSONParse(IF Truthy(text) THEN text ELSE "{}")
    IN  IF p.ok /\ CanRead(p.value)
        THEN Returned(p.value)
        ELSE ServiceCatch("article_analysis")

\* generateSEOSuggestions: JSON.parse(content || '{}'); nothing of seoData is
\* read inside the try
SEOSuggestionsParse(text) ==
    LET p == JSONParse(IF Truthy(text) THEN text ELSE "{}")
    IN  IF p.ok THEN Returned(p.value) ELSE ServiceCatch("seo_optimization")

\* what a service method returns once recordUsage is done
ServiceParse(feature, text, content) ==
    CASE feature = "title_generation"     -> Returned(ParseTitles(text))
      [] feature = "content_optimization" ->
            Returned(OptimizedContent(text, content))
      [] feature = "style_recommendation" -> RecommendStyleParse(text)
      [] feature = "article_analysis"     -> AnalyzeArticleParse(text)
      [] feature = "seo_optimization"     -> SEOSuggestionsParse(text)

\* the controller between the service's return and res.json: it logs
\* titles.length, optimizedContent.length, recommendations.length,
\* analysis.score, seoSuggestions.keywords.length.  Only the last can throw
\* on a value a service returns (null, or a value without keywords).
ControllerLogThrows(feature, value) ==
    /\ feature = "seo_optimization"
    /\ ~HasField(value, "keywords")

----------------------------------------------------------------------------
(* The usage log.  recordUsage only logs its data ('AI usage recorded'); the *)
(* log entry carries the featureType, and usageLog files it under the user  *)
(* whose request made the service call.                                     *)

RECURSIVE SumOver(_, _)
SumOver(f, S) ==
    IF S = {} THEN 0
    ELSE LET x == CHOOSE y \in S : TRUE IN f[x] + SumOver(f, S \ {x})

UserRecords(log, userId) == SumOver(log[userId], FeatureTypes)
TotalRecords(log) ==
    SumOver([u \in UserIds |-> UserRecords(log, u)], UserIds)

\* recordUsage({featureType, ..}): one more record
recordUsage(log, userId, featureType) ==
    [log EXCEPT ![userId][featureType] = @ + 1]

\* checkUsageLimit's catch: the error is logged and the answer is false
checkUsageLimitCatch == FALSE

\* getUserUsageStats: the query is commented out, the method returns fixed
\* figures for every user and period (costUSD 0.025 as its literal text)
getUserUsageStats(userId, period) ==
    [totalRequests |-> 45,
     totalTokens   |-> 12500,
     costUSD       |-> "0.025",
     features      |-> [title_generation     |-> 15,
                        content_optimization |-> 20,
                        style_recommendation |-> 8,
                        article_analysis     |-> 2]]

\* checkUsageLimit: the lookups are commented out, the try block is
\* `return true` and nothing in it can throw
checkUsageLimit(userId, featureType) == TRUE

----------------------------------------------------------------------------
(* A handler invocation *)

NoBody == JNull

NewRequest(endpoint, user, valid, content, tasks) ==
    [endpoint   |-> endpoint,
     user       |-> user,      \* req.user
     valid      |-> valid,     \* validationResult(req).isEmpty()
     content    |-> content,   \* req.body.content
     options    |-> NoOptions, \* req.body.style, count, tone, optimization
     prompt     |-> NoPrompt,  \* the prompt sent to the model
     tasks      |-> tasks,     \* req.body.tasks (batch-process)
     pc         |-> "entry",
     trace      |-> <<>>,      \* the stages passed, in order
     modelCalls |-> 0,         \* chat.completions.create calls issued
     written    |-> 0,         \* usage records written by recordUsage
     writeFailed |-> 0,        \* recordUsage calls whose write threw
     text       |-> "",        \* the model's answer, once it is there
     responses  |-> 0,         \* res.json calls
     status     |-> 0,
     body       |-> NoBody]

\* res.status(status).json(..) / res.json(..)
Respond(r, status, body) ==
    [r EXCEPT !.pc = "done", !.status = status, !.body = body,
              !.responses = @ + 1, !.trace = Append(@, "responded")]

Stage(r, pc, events) == [r EXCEPT !.pc = pc, !.trace = @ \o events]

\* the feature handlers after the validation gate: req.user?.id,
\* (optimize-content) the length gate, then `await checkUsageLimit(..)`
AfterValidation(r) ==
    IF r.user.id = "" THEN Respond(r, 401, NoBody)
    ELSE IF r.endpoint = "optimize-content" /\ ContentTooLong(r.content)
    THEN Respond(Stage(r, "entry", <<"validated", "authenticated">>),
                 400, NoBody)
    ELSE Stage(r, "checking", <<"validated", "authenticated">>)

\* the same with the `return` of the validation gate left out: the 400 is
\* sent and the handler goes on
HandlerEntryNoReturn(r) ==
    IF ~r.valid
    THEN AfterValidation([Respond(r, 400, NoBody) EXCEPT !.pc = "entry"])
    ELSE AfterValidation(r)

\* the entry segment of the five feature handlers: the validation gate
\* `if (!errors.isEmpty()) return res.status(400)..`, then the rest
HandlerEntry(r) ==
    IF ~r.valid THEN Respond(r, 400, NoBody) ELSE AfterValidation(r)

\* the same without the 429 branch: the answer of the check is not looked at
AfterQuotaCheckUnheeded(r, canUse) ==
    [Stage(r, "calling",
           <<(IF canUse THEN "quota_passed" ELSE "quota_refused"),
             "prompt_built", "model_called">>)
        EXCEPT !.modelCalls = @ + 1,
               !.prompt = BuildPrompt(r.endpoint, r.options)]

\* `if (!canUse) return res.status(429)..`, else the service method is called:
\* it builds the prompt and issues chat.completions.create
AfterQuotaCheck(r, canUse) ==
    IF ~canUse
    THEN Respond(Stage(r, "checking", <<"quota_refused">>), 429, NoBody)
    ELSE [Stage(r, "calling", <<"quota_passed", "prompt_built", "model_called">>)
            EXCEPT !.modelCalls = @ + 1,
                   !.prompt = BuildPrompt(r.endpoint, r.options)]

\* the data of a 200 response: generate-title sends {titles, style},
\* optimize-content {originalContent, optimizedContent, optimization}; the
\* three JSON features (and batch-process) send the value under one key,
\* which is left off here
ResponseData(r, value) ==
    CASE r.endpoint = "generate-title" ->
            [titles |-> value, style |-> StyleOf(r.options)]
      [] r.endpoint = "optimize-content" ->
            [originalContent  |-> r.content,
             optimizedContent |-> value,
             optimization     |-> OptimizationOf(r.options)]
      [] OTHER -> value

\* the controller once the service method has settled: a rejection or a
\* TypeError in the logging lands in the handler's catch (500), otherwise
\* res.json with the value
ControllerFinish(r, sr) ==
    IF sr.threw \/ ControllerLogThrows(FeatureOf(r.endpoint), sr.value)
    THEN Respond(r, 500, NoBody)
    ELSE Respond(r, 200, ResponseData(r, sr.value))

\* the same with recordUsage called for the failed call as well
AfterModelErrorRecorded(r) ==
    ControllerFinish(
        [Stage(r, "calling", <<"model_failed", "usage_recorded">>)
            EXCEPT !.written = @ + 1],
        ServiceCatch(FeatureOf(r.endpoint)))

\* the same with one retry: a first failure issues the call again
AfterModelErrorRetry(r) ==
    IF r.modelCalls < 2
    THEN [Stage(r, "calling", <<"model_failed", "model_called">>)
            EXCEPT !.modelCalls = @ + 1]
    ELSE ControllerFinish(Stage(r, "calling", <<"model_failed">>),
                          ServiceCatch(FeatureOf(r.endpoint)))

\* the model call failed: the service method's catch, then the controller
AfterModelError(r) ==
    ControllerFinish(Stage(r, "calling", <<"model_failed">>),
                     ServiceCatch(FeatureOf(r.endpoint)))

\* the same with the answer parsed ahead of recordUsage
AfterModelAnswerParseFirst(r, text, writeOk) ==
    [Stage(r, "recording", <<"model_answered", "parsed", "usage_recorded">>)
        EXCEPT !.text = text,
               !.written = IF writeOk THEN @ + 1 ELSE @,
               !.writeFailed = IF writeOk THEN @ ELSE @ + 1]

\* the model answered: `await this.recordUsage(..)`, whose write goes
\* through (writeOk) or throws
AfterModelAnswer(r, text, writeOk) ==
    [Stage(r, "recording", <<"model_answered", "usage_recorded">>)
        EXCEPT !.text = text,
               !.written = IF writeOk THEN @ + 1 ELSE @,
               !.writeFailed = IF writeOk THEN @ ELSE @ + 1]

\* recordUsage without its try/catch: a write that throws rejects the promise
RecordUsageRejectsOnFailure(failed) == failed

\* recordUsage's promise rejects: never, its catch only logs
\* 'Failed to record AI usage'
RecordUsageRejects(failed) == FALSE

\* after recordUsage: the text is parsed, the method returns, the controller
\* responds (a rejected recordUsage would land in the method's catch)
AfterRecordUsage(r) ==
    IF RecordUsageRejects(r.writeFailed > 0)
    THEN ControllerFinish(Stage(r, "recording", <<"record_failed">>),
                          ServiceCatch(FeatureOf(r.endpoint)))
    ELSE ControllerFinish(Stage(r, "recording", <<"parsed">>),
                          ServiceParse(FeatureOf(r.endpoint), r.text, r.content))

----------------------------------------------------------------------------
(* Spec: feature requests, one after the other, on a growing usage log *)

\* no handler invocation in progress
Idle == [NewRequest("none", NoUser, TRUE, "", <<>>) EXCEPT !.pc = "idle"]

\* the parser is not under examination
ParserIdle == [pc |-> "idle", content |-> Absent, titles |-> <<>>]

\* the editor page before the component has mounted: no Quill instance, and
\* the initial values of the useState calls of EditorCore and AIAssistant
UiIdle ==
    [quill |-> FALSE, text |-> <<>>, title |-> <<>>,
     generatedTitles |-> <<>>, optimizedContent |-> <<>>,
     styleRecommendations |-> <<>>, articleAnalysis |-> <<>>,
     seoSuggestions |-> <<>>, pending |-> <<>>, message |-> "none"]

Init ==
    /\ req = Idle
    /\ usageLog = [u \in UserIds |-> [f \in FeatureTypes |-> 0]]
    /\ lanes = <<>>
    /\ results = <<>>
    /\ parser = ParserIdle
    /\ ui = UiIdle

\* a request reaches one of the five feature handlers
FeatureRequest(endpoint, user, valid, content, options) ==
    /\ req.pc = "idle"
    /\ TotalRecords(usageLog) < MaxRecords
    /\ options \in OptionsOf(endpoint)
    /\ req' = HandlerEntry([NewRequest(endpoint, user, valid, content, <<>>)
                               EXCEPT !.options = options])
    /\ UNCHANGED <<usageLog, lanes, results, parser, ui>>

\* the awaited checkUsageLimit resolves
QuotaCheckReturns ==
    /\ req.pc = "checking"
    /\ req' = AfterQuotaCheck(
                  req, checkUsageLimit(req.user.id, FeatureOf(req.endpoint)))
    /\ UNCHANGED <<usageLog, lanes, results, parser, ui>>

\* the awaited chat.completions.create rejects
ModelFails ==
    /\ req.pc = "calling"
    /\ req' = AfterModelError(req)
    /\ UNCHANGED <<usageLog, lanes, results, parser, ui>>

\* the awaited chat.completions.create resolves with a text, and
\* recordUsage's write goes through or throws
ModelAnswers(text, writeOk) ==
    /\ req.pc = "calling"
    /\ text \in ModelTexts(FeatureOf(req.endpoint))
    /\ req' = AfterModelAnswer(req, text, writeOk)
    /\ usageLog' = IF writeOk
                   THEN recordUsage(usageLog, req.user.id, FeatureOf(req.endpoint))
                   ELSE usageLog
    /\ UNCHANGED <<lanes, results, parser, ui>>

\* the awaited recordUsage resolves
RecordUsageReturns ==
    /\ req.pc = "recording"
    /\ req' = AfterRecordUsage(req)
    /\ UNCHANGED <<usageLog, lanes, results, parser, ui>>

\* req.query.period of usage-stats
Periods == {"day", "week", "month"}

\* the entry segment of getUserUsageStats: req.user?.id, then
\* `await aiService.getUserUsageStats(userId, period)`
StatsEntry(r) ==
    IF r.user.id = "" THEN Respond(r, 401, NoBody)
    ELSE Stage(r, "reading", <<"authenticated">>)

\* res.json({success: true, data: {...stats, period, ..}})
StatsFinish(r, stats) ==
    Respond(r, 200, [stats |-> stats, period |-> r.content])

\* a request reaches getUserUsageStats; the period travels in r.content
StatsRequest(user, period) ==
    /\ req.pc = "idle"
    /\ req' = StatsEntry(NewRequest("usage-stats", user, TRUE, period, <<>>))
    /\ UNCHANGED <<usageLog, lanes, results, parser, ui>>

\* the same with the read counted as a use of its own
StatsReturnsRecorded ==
    /\ req.pc = "reading"
    /\ req' = StatsFinish(req, getUserUsageStats(req.user.id, req.content))
    /\ usageLog' = recordUsage(usageLog, req.user.id, "title_generation")
    /\ UNCHANGED <<lanes, results, parser, ui>>

\* the awaited getUserUsageStats resolves
StatsReturns ==
    /\ req.pc = "reading"
    /\ req' = StatsFinish(req, getUserUsageStats(req.user.id, req.content))
    /\ UNCHANGED <<usageLog, lanes, results, parser, ui>>

\* the data of getUsageLimits' response: subscriptionType and
\* limits[subscriptionType]
UsageLimitsData(user) ==
    LET tier == EffectiveTier(user)
    IN  [subscriptionType |-> tier,
         limits |-> [dailyLimits |-> [f \in FeatureTypes |-> DailyLimits(tier, f)],
                     features |-> [batchProcess     |-> BatchProcessFlag(tier),
                                   advancedAnalysis |-> AdvancedAnalysisFlag(tier),
                                   prioritySupport  |-> PrioritySupportFlag(tier)]]]

\* getUsageLimits, which awaits nothing: req.user?.id, then res.json
LimitsHandler(r) ==
    IF r.user.id = "" THEN Respond(r, 401, NoBody)
    ELSE Respond(Stage(r, "entry", <<"authenticated">>),
                 200, UsageLimitsData(r.user))

\* a request reaches getUsageLimits
LimitsRequest(user) ==
    /\ req.pc = "idle"
    /\ req' = LimitsHandler(NewRequest("usage-limits", user, TRUE, "", <<>>))
    /\ UNCHANGED <<usageLog, lanes, results, parser, ui>>

\* the handler's promise settles; req, res and the handler's locals are dropped
HandlerReturns ==
    /\ req.pc = "done"
    /\ req' = Idle
    /\ lanes' = <<>>
    /\ results' = <<>>
    /\ UNCHANGED <<usageLog, parser, ui>>

Next ==
    \/ /\ req.pc = "idle"
       /\ \E e \in FeatureEndpoints, u \in Users, v \in BOOLEAN, c \in Contents,
             o \in AllOptions :
                FeatureRequest(e, u, v, c, o)
    \/ /\ req.pc = "idle"
       /\ \E u \in Users, p \in Periods : StatsRequest(u, p)
    \/ StatsReturns
    \/ /\ req.pc = "idle"
       /\ \E u \in Users : LimitsRequest(u)
    \/ QuotaCheckReturns
    \/ ModelFails
    \/ \E t \in AllTexts, w \in BOOLEAN : ModelAnswers(t, w)
    \/ RecordUsageReturns
    \/ HandlerReturns

Spec == Init /\ [][Next]_vars

----------------------------------------------------------------------------
(* batch-process.  tasks.map(async (task) => ..) runs every lane up to its  *)
(* first await inside the entry segment: a recognised task has its model    *)
(* call issued there, any other string falls through the switch and its     *)
(* lane is finished at once.  The lanes' model calls then settle in any     *)
(* order; `await Promise.allSettled(promises)` resumes the handler when      *)
(* every lane is finished.                                                  *)

\* the five cases of the switch, and a string that is none of them
KnownTasks == {"title", "optimize", "analyze", "seo", "style"}
TaskNames == KnownTasks \cup {"translate"}

RECURSIVE SeqsUpTo(_, _)
SeqsUpTo(S, n) ==
    IF n = 0 THEN {<<>>}
    ELSE LET shorter == SeqsUpTo(S, n - 1)
         IN  shorter \cup {Append(q, x) : q \in shorter, x \in S}

TaskLists == SeqsUpTo(TaskNames, MaxTasks)

\* the service method each case calls
TaskFeature(task) ==
    CASE task = "title"    -> "title_generation"
      [] task = "optimize" -> "content_optimization"
      [] task = "analyze"  -> "article_analysis"
      [] task = "seo"      -> "seo_optimization"
      [] task = "style"    -> "style_recommendation"

\* the key of results each case assigns
ResultKey(task) ==
    CASE task = "title"    -> "titles"
      [] task = "optimize" -> "optimizedContent"
      [] task = "analyze"  -> "analysis"
      [] task = "seo"      -> "seo"
      [] task = "style"    -> "styleRecommendations"

\* results[`${task}Error`]
ErrorKey(task) == task \o "Error"

\* the tier gate left out
BatchForbiddenNever(user) == FALSE

\* `req.user?.subscriptionType === 'free'`
BatchForbidden(user) == user.subscriptionType = "free"

\* a lane as tasks.map leaves it at its first await
StartLane(task) ==
    [task  |-> task,
     pc    |-> IF task \in KnownTasks THEN "calling" ELSE "done",
     text  |-> "",
     trace |-> IF task \in KnownTasks
               THEN <<"prompt_built", "model_called">> ELSE <<>>]

StartLanes(tasks) == [i \in 1..Len(tasks) |-> StartLane(tasks[i])]

KnownCount(tasks) == Cardinality({i \in 1..Len(tasks) : tasks[i] \in KnownTasks})

\* the same with the `return` of the tier gate left out: the 403 is sent and
\* the lanes are started all the same
BatchEntryNoReturn(r) ==
    IF ~r.valid THEN Respond(r, 400, NoBody)
    ELSE IF r.user.id = "" THEN Respond(r, 401, NoBody)
    ELSE LET sent == IF BatchForbidden(r.user)
                     THEN Respond(Stage(r, "entry", <<"validated", "authenticated">>),
                                  403, NoBody)
                     ELSE Stage(r, "entry", <<"validated", "authenticated">>)
         IN  [Stage(sent, "joining", <<"tier_allowed">>)
                EXCEPT !.modelCalls = KnownCount(r.tasks)]

\* the entry segment of batchProcess: validation, req.user?.id, the tier
\* gate, `const results = {}` and tasks.map
BatchEntry(r) ==
    IF ~r.valid THEN Respond(r, 400, NoBody)
    ELSE IF r.user.id = "" THEN Respond(r, 401, NoBody)
    ELSE IF BatchForbidden(r.user)
    THEN Respond(Stage(r, "entry", <<"validated", "authenticated">>),
                 403, NoBody)
    ELSE [Stage(r, "joining", <<"validated", "authenticated", "tier_allowed">>)
            EXCEPT !.modelCalls = KnownCount(r.tasks)]

\* an assignment results[key] = value
Assign(res, key, value) == (key :> value) @@ res

\* the same with the lane's catch starting results afresh
LaneSettleCatchResets(res, task, sr) ==
    IF sr.threw
    THEN Assign(<<>>, ErrorKey(task), "failed")
    ELSE Assign(res, ResultKey(task), sr.value)

\* the end of a lane: the switch case assigns the method's value, the lane's
\* catch assigns the error marker when the method rejected
LaneSettle(res, task, sr) ==
    IF sr.threw
    THEN Assign(res, ErrorKey(task), "failed")
    ELSE Assign(res, ResultKey(task), sr.value)

LaneDone(lane, events) ==
    [lane EXCEPT !.pc = "done", !.trace = @ \o events]

\* a request reaches batchProcess.  SpecBatch follows batch requests on a log
\* that is still empty: the handler never reads the log.
BatchRequest(user, valid, content, tasks) ==
    /\ req.pc = "idle"
    /\ TotalRecords(usageLog) = 0
    /\ LET r == BatchEntry(NewRequest("batch-process", user, valid, content, tasks))
       IN  /\ req' = r
           /\ lanes' = IF r.pc = "joining" THEN StartLanes(tasks) ELSE <<>>
    /\ results' = <<>>
    /\ UNCHANGED <<usageLog, parser, ui>>

\* lane i's chat.completions.create rejects: the method's catch, then the
\* lane's switch case or catch
LaneModelFails(i) ==
    /\ req.pc = "joining"
    /\ i \in DOMAIN lanes
    /\ lanes[i].pc = "calling"
    /\ lanes' = [lanes EXCEPT ![i] = LaneDone(@, <<"model_failed">>)]
    /\ results' = LaneSettle(results, lanes[i].task,
                             ServiceCatch(TaskFeature(lanes[i].task)))
    /\ UNCHANGED <<req, usageLog, parser, ui>>

\* lane i's chat.completions.create resolves: `await this.recordUsage(..)`,
\* whose write goes through or throws
LaneModelAnswers(i, text, writeOk) ==
    /\ req.pc = "joining"
    /\ i \in DOMAIN lanes
    /\ lanes[i].pc = "calling"
    /\ text \in ModelTexts(TaskFeature(lanes[i].task))
    /\ lanes' = [lanes EXCEPT ![i] =
                    [@ EXCEPT !.pc = "recording", !.text = text,
                              !.trace = @ \o <<"model_answered", "usage_recorded">>]]
    /\ usageLog' = IF writeOk
                   THEN recordUsage(usageLog, req.user.id,
                                    TaskFeature(lanes[i].task))
                   ELSE usageLog
    /\ req' = [req EXCEPT !.written = IF writeOk THEN @ + 1 ELSE @,
                          !.writeFailed = IF writeOk THEN @ ELSE @ + 1]
    /\ UNCHANGED <<results, parser, ui>>

\* lane i's recordUsage resolves (it never rejects): the text is parsed and
\* the lane ends
LaneRecordUsageReturns(i) ==
    /\ req.pc = "joining"
    /\ i \in DOMAIN lanes
    /\ lanes[i].pc = "recording"
    /\ lanes' = [lanes EXCEPT ![i] = LaneDone(@, <<"parsed">>)]
    /\ results' = LaneSettle(results, lanes[i].task,
                             ServiceParse(TaskFeature(lanes[i].task),
                                          lanes[i].text, req.content))
    /\ UNCHANGED <<req, usageLog, parser, ui>>

\* the join resolving with the first finished lane, as Promise.race would
BatchRespondFirstSettled ==
    /\ req.pc = "joining"
    /\ \E i \in DOMAIN lanes : lanes[i].pc = "done"
    /\ req' = Respond(req, 200, results)
    /\ UNCHANGED <<usageLog, lanes, results, parser, ui>>

\* Promise.allSettled resolves: res.json({success: true, data: {results, ..}})
BatchRespond ==
    /\ req.pc = "joining"
    /\ \A i \in DOMAIN lanes : lanes[i].pc = "done"
    /\ req' = Respond(req, 200, results)
    /\ UNCHANGED <<usageLog, lanes, results, parser, ui>>

\* SpecBatch follows the lanes under every text of the model, with every
\* usage record written; a write that throws changes nothing a lane does
\* (recordUsage resolves all the same) and is followed, on fewer texts, in
\* SpecBatchFair and SpecAll.

\* the users batch requests come from: batchProcess reads of req.user its
\* id (present or not) and its subscriptionType only
BatchUsers == {u \in Users : u.id \in {"", "u1"}}

NextBatch ==
    \/ /\ req.pc = "idle"
       /\ \E u \in BatchUsers, v \in BOOLEAN, c \in {"short"}, ts \in TaskLists :
                BatchRequest(u, v, c, ts)
    \/ \E i \in 1..MaxTasks : LaneModelFails(i)
    \/ \E i \in 1..MaxTasks, t \in AllTexts : LaneModelAnswers(i, t, TRUE)
    \/ \E i \in 1..MaxTasks : LaneRecordUsageReturns(i)
    \/ BatchRespond
    \/ HandlerReturns

SpecBatch == Init /\ [][NextBatch]_vars

----------------------------------------------------------------------------
(* SpecBatchFair: batch-process where every model call issued returns or    *)
(* fails in the end, every recordUsage resolves, and the handler is resumed *)
(* once Promise.allSettled has resolved.  Progress of a lane does not       *)
(* depend on what the model answers: the answers are an empty text and      *)
(* "null", the user is a pro user.                                          *)

FairTexts == {"", "null"}
FairUsers == {u \in BatchUsers : u.subscriptionType = "pro"}

\* lane i's model call settles
LaneModelSettles(i) ==
    \/ LaneModelFails(i)
    \/ \E t \in FairTexts, w \in BOOLEAN : LaneModelAnswers(i, t, w)

NextBatchFair ==
    \/ /\ req.pc = "idle"
       /\ \E u \in FairUsers, ts \in TaskLists : BatchRequest(u, TRUE, "short", ts)
    \/ \E i \in 1..MaxTasks : LaneModelSettles(i)
    \/ \E i \in 1..MaxTasks : LaneRecordUsageReturns(i)
    \/ BatchRespond
    \/ HandlerReturns

FairBatch ==
    /\ \A i \in 1..MaxTasks : WF_vars(LaneModelSettles(i))
    /\ \A i \in 1..MaxTasks : WF_vars(LaneRecordUsageReturns(i))
    /\ WF_vars(BatchRespond)

SpecBatchFair == Init /\ [][NextBatchFair]_vars /\ FairBatch

----------------------------------------------------------------------------
(* SpecQuota: the feature handlers on top of a checkUsageLimit whose        *)
(* lookups (User.findById, AIUsage.getUserDailyUsage, today commented out)  *)
(* are in place and may raise: the catch of checkUsageLimit then answers    *)
(* false.                                                                   *)

\* the awaited checkUsageLimit resolves with false, a lookup having raised
QuotaLookupRaises ==
    /\ req.pc = "checking"
    /\ req' = AfterQuotaCheck(req, checkUsageLimitCatch)
    /\ UNCHANGED <<usageLog, lanes, results, parser, ui>>

NextQuota ==
    \/ Next
    \/ QuotaLookupRaises

SpecQuota == Init /\ [][NextQuota]_vars

----------------------------------------------------------------------------
(* SpecAll: every handler of the controller, one invocation after the       *)
(* other: the requests of Spec, and batch-process requests (on a log that   *)
(* is still empty) whose lanes are answered with the texts of FairTexts     *)

NextAll ==
    \/ Next
    \/ /\ req.pc = "idle"
       /\ \E u \in BatchUsers, v \in BOOLEAN, ts \in TaskLists :
                BatchRequest(u, v, "short", ts)
    \/ \E i \in 1..MaxTasks : LaneModelSettles(i)
    \/ \E i \in 1..MaxTasks : LaneRecordUsageReturns(i)
    \/ BatchRespond

SpecAll == Init /\ [][NextAll]_vars

----------------------------------------------------------------------------
(* SpecParse: the title parser of generateTitle on its own, applied to      *)
(* every raw text of up to MaxRawLen characters and to an absent content    *)

\* letters, a blank and the line break
Alphabet == {"a", "b", " ", "\n"}
RawTexts == SeqsUpTo(Alphabet, MaxRawLen)
RawContents == {Absent} \cup {Present(chars) : chars \in RawTexts}

InitParse ==
    /\ req = Idle
    /\ usageLog = [u \in UserIds |-> [f \in FeatureTypes |-> 0]]
    /\ lanes = <<>>
    /\ results = <<>>
    /\ parser \in {[pc |-> "called", content |-> c, titles |-> <<>>] :
                        c \in RawContents}
    /\ ui = UiIdle

\* `const titles = response.choices[0].message.content?.split(..).. || []`
ParserReturns ==
    /\ parser.pc = "called"
    /\ parser' = [parser EXCEPT !.pc = "returned",
                                !.titles = ParseTitleChars(parser.content)]
    /\ UNCHANGED <<req, usageLog, lanes, results, ui>>

NextParse == ParserReturns

SpecParse == InitParse /\ [][NextParse]_vars

----------------------------------------------------------------------------
(* Properties *)

\* every occurrence of event in tr has an occurrence of before ahead of it
PrecededBy(tr, event, before) ==
    \A i \in DOMAIN tr :
        tr[i] = event => \E j \in 1..(i - 1) : tr[j] = before

\* the request has a user and got past validation
Authenticated(r) == r.user.id # ""

\* the records of the request's user and feature when the request arrived
PriorCount(r) ==
    usageLog[r.user.id][FeatureOf(r.endpoint)] - r.written

\* the cap of the request's user for the request's feature
CapOf(r) == DailyLimits(r.user.subscriptionType, FeatureOf(r.endpoint))

\* C1 (as claimed): every model call, of a feature handler or of a
\* batch-process lane, is issued after a passed quota check of the same
\* request.
C1_QuotaCheckBeforeEveryModelCall ==
    /\ PrecededBy(req.trace, "model_called", "quota_passed")
    /\ \A i \in DOMAIN lanes :
          PrecededBy(req.trace \o lanes[i].trace, "model_called", "quota_passed")

\* C2 (as claimed): while a request waits for its quota check, checkUsageLimit
\* answers false exactly when the records of its user and feature have
\* reached the tier's cap, and true whenever the cap is -1.
C2_CheckLimitMatchesCap ==
    (/\ req.pc = "checking"
     /\ req.user.subscriptionType \in Tiers)
    => (checkUsageLimit(req.user.id, FeatureOf(req.endpoint))
            <=> (CapOf(req) = -1 \/ PriorCount(req) < CapOf(req)))

\* a valid, authenticated feature request that passes the length gate and
\* whose user has reached the cap of the feature
AtCap(r) ==
    /\ r.endpoint \in FeatureEndpoints
    /\ r.valid
    /\ Authenticated(r)
    /\ r.user.subscriptionType \in Tiers
    /\ ~(r.endpoint = "optimize-content" /\ ContentTooLong(r.content))
    /\ CapOf(r) # -1
    /\ PriorCount(r) >= CapOf(r)

\* C3 (as claimed): a valid authenticated request of a user at the cap issues
\* no model call and is answered 429.
C3_AtCapAnswered429 ==
    AtCap(req) =>
        /\ req.modelCalls = 0
        /\ (req.pc = "done" => req.status = 429)

\* C4: a feature request that fails validation is answered 400, one without
\* user 401, an over-long optimize-content 400, a refused quota check 429;
\* and a request answered 400, 401 or 429 has issued no model call and
\* written no usage record.
C4_EarlyFailureShortCircuits ==
    req.endpoint \in FeatureEndpoints =>
        /\ (req.pc = "done" /\ ~req.valid => req.status = 400)
        /\ (req.pc = "done" /\ req.valid /\ ~Authenticated(req)
                => req.status = 401)
        /\ ((req.pc = "done" /\ req.valid /\ Authenticated(req)
              /\ req.endpoint = "optimize-content"
              /\ StrLength(req.content) > MaxContentLength)
                => req.status = 400)
        /\ ((\E i \in DOMAIN req.trace : req.trace[i] = "quota_refused")
                => req.status = 429)
        /\ (req.status \in {400, 401, 429}
                => /\ req.modelCalls = 0
                   /\ req.written = 0
                   /\ \A i \in DOMAIN req.trace :
                         req.trace[i] \notin {"model_called", "usage_recorded"})

\* C4 witness: an unauthenticated valid request was answered 401
C4_Witness ==
    /\ req.endpoint = "seo-suggestions"
    /\ req.valid /\ ~Authenticated(req)
    /\ req.pc = "done" /\ req.status = 401

\* C5: optimize-content of an authenticated user with more than 10000
\* characters is answered 400 without model call or usage record; with
\* exactly 10000 characters (and valid input) it is not answered 400 and
\* gets to the quota check.
C5_LengthGate ==
    (req.endpoint = "optimize-content" /\ Authenticated(req)) =>
        /\ (StrLength(req.content) > MaxContentLength
              => (/\ req.pc = "done" /\ req.status = 400
                  /\ req.modelCalls = 0 /\ req.written = 0))
        /\ ((StrLength(req.content) = MaxContentLength /\ req.valid)
              => (/\ req.status # 400
                  /\ \/ req.pc = "checking"
                     \/ \E i \in DOMAIN req.trace :
                           req.trace[i] \in {"quota_passed", "quota_refused"}))

\* C5 witness: valid input of 10001 characters was answered 400
C5_Witness ==
    /\ req.endpoint = "optimize-content" /\ Authenticated(req) /\ req.valid
    /\ StrLength(req.content) = MaxContentLength + 1
    /\ req.pc = "done" /\ req.status = 400

\* event occurs in tr
Has(tr, event) == \E i \in DOMAIN tr : tr[i] = event

\* a batch-process request that got past its gates and has been answered
BatchAnswered ==
    /\ req.endpoint = "batch-process"
    /\ Has(req.trace, "tier_allowed")
    /\ req.pc = "done"

\* C6 (as claimed): in an answered batch the status is 200, every lane whose
\* model call failed has its marker under <task>Error, and every lane whose
\* model call was answered has its entry under the task's result key.
C6_FailedLaneHasErrorMarker ==
    BatchAnswered =>
        /\ req.status = 200
        /\ \A i \in DOMAIN lanes :
              /\ Has(lanes[i].trace, "model_failed")
                    => ErrorKey(lanes[i].task) \in DOMAIN req.body
              /\ Has(lanes[i].trace, "parsed")
                    => ResultKey(lanes[i].task) \in DOMAIN req.body

\* the task has a result entry or an error entry in res
Accounted(task, res) ==
    \/ ErrorKey(task) \in DOMAIN res
    \/ IF task \in KnownTasks
       THEN ResultKey(task) \in DOMAIN res
       ELSE task \in DOMAIN res

\* C7 (as claimed): in a 200 response of batch-process every element of the
\* request's tasks list has a result entry or an error entry.
C7_EveryTaskAccounted ==
    (BatchAnswered /\ req.status = 200) =>
        \A i \in DOMAIN req.tasks : Accounted(req.tasks[i], req.body)

\* a batch-process request of an authenticated free-tier user
FreeTierBatch ==
    /\ req.endpoint = "batch-process"
    /\ Authenticated(req)
    /\ req.user.subscriptionType = "free"

\* C8 (as claimed): a free-tier user's batch-process is answered 403, with no
\* model call and no usage record.
C8_FreeTierBatchIs403 ==
    FreeTierBatch =>
        /\ req.pc = "done" /\ req.status = 403
        /\ req.modelCalls = 0 /\ req.written = 0

\* C8 (amended): a free-tier user's batch-process that passes input
\* validation is answered 403 whatever the task list, no lane is started, no
\* model call is issued and no usage record is written.
C8_ValidFreeTierBatchIs403 ==
    (FreeTierBatch /\ req.valid) =>
        /\ req.pc = "done" /\ req.status = 403
        /\ req.modelCalls = 0 /\ req.written = 0
        /\ lanes = <<>>

\* C8 witness: a valid free-tier batch with two recognised tasks got its 403
C8_Witness ==
    /\ FreeTierBatch /\ req.valid
    /\ req.tasks = <<"title", "seo">>
    /\ req.status = 403

\* the three features whose answer is decoded with JSON.parse
JSONEndpoints == {"recommend-style", "analyze-article", "seo-suggestions"}

\* the result shapes: a list of {templateId, reason, confidence}; an object
\* with score, suggestions, keywords, readabilityLevel; an object with title,
\* description, keywords, suggestions
Conforms(feature, value) ==
    CASE feature = "style_recommendation" ->
            /\ value.type = "array"
            /\ \A i \in DOMAIN value.items :
                  {"templateId", "reason", "confidence"} \subseteq DOMAIN value.items[i]
      [] feature = "article_analysis" ->
            /\ value.type = "object"
            /\ {"score", "suggestions", "keywords", "readabilityLevel"}
                  \subseteq DOMAIN value.fields
      [] feature = "seo_optimization" ->
            /\ value.type = "object"
            /\ {"title", "description", "keywords", "suggestions"}
                  \subseteq DOMAIN value.fields

\* C9 (as claimed): whatever text the model answered a JSON feature with,
\* the service method's parse does not reject and returns a value of the
\* feature's result shape.
C9_ParseTotalAndWellShaped ==
    (req.endpoint \in JSONEndpoints /\ Has(req.trace, "parsed")) =>
        LET sr == ServiceParse(FeatureOf(req.endpoint), req.text, req.content)
        IN  /\ ~sr.threw
            /\ Conforms(FeatureOf(req.endpoint), sr.value)

\* a non-empty text JSON.parse rejects (an empty answer is replaced by '[]'
\* or '{}' before it is decoded)
Undecodable(text) == Truthy(text) /\ ~JSONParse(text).ok

\* C10: when the model answered a JSON feature with text that cannot be
\* decoded, the endpoint answers 200 with the fixed default: one
\* recommendation, minimalist with confidence 0.7; score 7.0, one suggestion,
\* no keywords, readability medium; the placeholder title and description,
\* no keywords, one suggestion.
C10_UndecodableTextGivesDefault ==
    (/\ req.endpoint \in JSONEndpoints
     /\ Has(req.trace, "model_answered")
     /\ Undecodable(req.text)
     /\ req.pc = "done") =>
        /\ req.status = 200
        /\ CASE req.endpoint = "recommend-style" ->
                  /\ req.body.type = "array"
                  /\ Len(req.body.items) = 1
                  /\ req.body.items[1].templateId = "minimalist"
                  /\ req.body.items[1].confidence = "0.7"
             [] req.endpoint = "analyze-article" ->
                  /\ req.body.type = "object"
                  /\ req.body.fields.score = "7.0"
                  /\ Len(req.body.fields.suggestions) = 1
                  /\ req.body.fields.keywords = <<>>
                  /\ req.body.fields.readabilityLevel = "medium"
             [] req.endpoint = "seo-suggestions" ->
                  /\ req.body.type = "object"
                  /\ req.body.fields.title = "set the title manually"
                  /\ req.body.fields.description = "set the description manually"
                  /\ req.body.fields.keywords = <<>>
                  /\ Len(req.body.fields.suggestions) = 1

\* C10 witness: recommend-style answered after the model sent a truncated
\* document
C10_Witness ==
    /\ req.endpoint = "recommend-style"
    /\ req.text = TruncatedJSON
    /\ req.pc = "done" /\ req.status = 200

\* C11 (as claimed): a feature request whose model call failed is answered
\* 500, on each of the five endpoints.
C11_ModelFailureIs500 ==
    (/\ req.endpoint \in FeatureEndpoints
     /\ Has(req.trace, "model_failed")
     /\ req.pc = "done") => req.status = 500

\* a feature request that got past validation, authentication, the length
\* gate and the quota check
PassedGates(r) == Has(r.trace, "quota_passed")

\* C12: a feature request has issued exactly one model call once it is past
\* validation, authentication and the quota check, and none before or
\* otherwise; a failed model call is followed by no second call.
C12_AtMostOneModelCall ==
    req.endpoint \in FeatureEndpoints =>
        /\ req.modelCalls = (IF PassedGates(req) THEN 1 ELSE 0)
        /\ Cardinality({i \in DOMAIN req.trace : req.trace[i] = "model_called"})
              = req.modelCalls
        /\ (req.pc = "done" /\ req.valid /\ Authenticated(req)
              /\ ~(req.endpoint = "optimize-content" /\ ContentTooLong(req.content))
              /\ ~Has(req.trace, "quota_refused")
                => req.modelCalls = 1)
        /\ \A i \in DOMAIN req.trace :
              req.trace[i] = "model_failed"
                => \A j \in (i + 1)..Len(req.trace) : req.trace[j] # "model_called"

\* C12 witness: a request whose one model call failed has been answered
C12_Witness ==
    /\ req.endpoint = "generate-title"
    /\ Has(req.trace, "model_failed")
    /\ req.modelCalls = 1
    /\ req.pc = "done" /\ req.status = 500

\* what the handler answers for a model answer when nothing but the answer
\* decides: the parse's value with 200, or 500
AnswerFor(r) ==
    LET sr == ServiceParse(FeatureOf(r.endpoint), r.text, r.content)
    IN  IF sr.threw \/ ControllerLogThrows(FeatureOf(r.endpoint), sr.value)
        THEN [status |-> 500, value |-> NoBody]
        ELSE [status |-> 200, value |-> ResponseData(r, sr.value)]

\* C13: a feature request whose model call was answered gets the status and
\* the result its answer decides, whether recordUsage's write went through
\* or threw: a request answered 200 after a write is answered the same 200
\* after a failed write.
C13_WriteFailureNotSurfaced ==
    (/\ req.endpoint \in FeatureEndpoints
     /\ Has(req.trace, "model_answered")
     /\ req.pc = "done") =>
        /\ req.written + req.writeFailed = 1
        /\ req.status = AnswerFor(req).status
        /\ req.status = 200 => req.body = AnswerFor(req).value

\* C13 witness: generate-title answered 200 with its titles after the write
\* of its usage record threw
C13_Witness ==
    /\ req.endpoint = "generate-title"
    /\ req.writeFailed = 1 /\ req.written = 0
    /\ req.pc = "done" /\ req.status = 200
    /\ req.body.titles = <<"Title A", "Title B">>

\* a sequence of characters that is not empty and neither starts nor ends
\* with white space
TrimmedNonEmpty(chars) ==
    /\ chars # <<>>
    /\ Head(chars) \notin WhiteSpace
    /\ chars[Len(chars)] \notin WhiteSpace

\* C14 (as claimed): a 200 response of generate-title carries at most
\* min(count, 10) titles, each of them non-empty and trimmed, and the style
\* the request asked for, whatever text the model answered.
C14_TitlesWithinCount ==
    (/\ req.endpoint = "generate-title"
     /\ req.pc = "done" /\ req.status = 200) =>
        LET lines == ParseTitleChars(Present(Chars(req.text)))
        IN  /\ Len(req.body.titles) <= Min(CountOf(req.options), 10)
            /\ Len(req.body.titles) = Len(lines)
            /\ \A i \in DOMAIN lines :
                  /\ req.body.titles[i] = Str(lines[i])
                  /\ TrimmedNonEmpty(lines[i])
            /\ req.options.style # "absent"
                  => req.body.style = req.options.style

\* the lines of a text by position: a line runs from behind one cut to
\* before the next, the cuts being the line breaks and the two ends
Cuts(chars) ==
    {0, Len(chars) + 1} \cup {i \in DOMAIN chars : chars[i] = "\n"}
NextCut(chars, c) ==
    CHOOSE d \in Cuts(chars) :
        d > c /\ \A e \in Cuts(chars) : e > c => d <= e
\* the positions of a line's characters that are not white space
InkOf(chars, c) ==
    {i \in (c + 1)..(NextCut(chars, c) - 1) : chars[i] \notin WhiteSpace}
\* the lines that are neither empty nor white space only, by their cut
InkedLines(chars) ==
    {c \in Cuts(chars) \ {Len(chars) + 1} : InkOf(chars, c) # {}}

\* the titles a raw text stands for: its inked lines in order, each from
\* its first to its last character that is not white space
ExpectedTitles(chars) ==
    LET inked == InkedLines(chars)
    IN  [k \in 1..Cardinality(inked) |->
            LET c  == CHOOSE d \in inked :
                         Cardinality({e \in inked : e <= d}) = k
                lo == CHOOSE i \in InkOf(chars, c) :
                         \A j \in InkOf(chars, c) : i <= j
                hi == CHOOSE i \in InkOf(chars, c) :
                         \A j \in InkOf(chars, c) : j <= i
            IN  SubSeq(chars, lo, hi)]

\* C15: for every raw text the title parser returns its lines, split on
\* line breaks, without the empty and white-space-only lines, each trimmed,
\* in the original order; for an empty or absent text the empty list.
C15_TitleParser ==
    parser.pc = "returned" =>
        /\ parser.content.present
              => parser.titles = ExpectedTitles(parser.content.chars)
        /\ (~parser.content.present \/ parser.content.chars = <<>>)
              => parser.titles = <<>>

\* C15 witness: the parser returned b and a for a text of three lines with
\* a blank line between them
C15_Witness ==
    /\ parser.pc = "returned"
    /\ parser.content = Present(<<"b", "\n", " ", "\n", "a">>)
    /\ parser.titles = << <<"b">>, <<"a">> >>

\* the request carries a style, tone or optimization outside the fixed sets
OutsideSets(r) ==
    \/ r.endpoint = "generate-title" /\ StyleOf(r.options) \notin StyleKeys
    \/ /\ r.endpoint = "optimize-content"
       /\ \/ ToneOf(r.options) \notin ToneKeys
          \/ OptimizationOf(r.options) \notin OptimizationKeys

\* C16 (as claimed): with a style, tone or optimization outside the fixed
\* sets no prompt is built and the model is not invoked; with values inside
\* them the prompt is built with every description found.
C16_InvalidOptionRejected ==
    req.endpoint \in {"generate-title", "optimize-content"} =>
        /\ OutsideSets(req)
              => (/\ ~Has(req.trace, "prompt_built")
                  /\ ~Has(req.trace, "model_called")
                  /\ req.modelCalls = 0)
        /\ (~OutsideSets(req) /\ Has(req.trace, "prompt_built"))
              => \A i \in DOMAIN req.prompt.parts :
                    req.prompt.parts[i] # "undefined"

\* the count a stats result gives for a feature (0 when it has no entry)
FeatureCount(stats, f) ==
    IF f \in DOMAIN stats.features THEN stats.features[f] ELSE 0

\* C17 (as claimed): a 200 response of usage-stats gives as totalRequests
\* the number of usage records of the requesting user and as features[f]
\* the number of those with feature f, the records of other users not
\* counted.  (Every record of the log is of the current day, inside each of
\* the three period windows.)
C17_StatsCountRecords ==
    (req.endpoint = "usage-stats" /\ req.pc = "done" /\ req.status = 200) =>
        LET stats == req.body.stats
        IN  /\ stats.totalRequests = UserRecords(usageLog, req.user.id)
            /\ \A f \in FeatureTypes :
                  FeatureCount(stats, f) = usageLog[req.user.id][f]
            /\ stats.totalRequests
                  = SumOver([f \in FeatureTypes |-> FeatureCount(stats, f)],
                            FeatureTypes)

\* the position of the first occurrence of event in tr (0: none)
FirstAt(tr, event) ==
    IF Has(tr, event)
    THEN CHOOSE i \in DOMAIN tr :
            tr[i] = event /\ \A j \in 1..(i - 1) : tr[j] # event
    ELSE 0

\* the events occur in tr, each once, in the order given
InOrder(tr, events) ==
    /\ \A k \in DOMAIN events :
          Cardinality({i \in DOMAIN tr : tr[i] = events[k]}) = 1
    /\ \A k \in 1..(Len(events) - 1) :
          FirstAt(tr, events[k]) < FirstAt(tr, events[k + 1])

\* a feature request answered 200 after its model call was answered
SuccessResponse(r) ==
    /\ r.endpoint \in FeatureEndpoints
    /\ r.pc = "done" /\ r.status = 200
    /\ Has(r.trace, "model_answered")

RecordAttempts(r) == r.written + r.writeFailed

\* C19: recordUsage is called for a feature request exactly when its model
\* call returned, and then once: a request whose model call failed has no
\* usage record, and one whose answer cannot be decoded has its one record
\* all the same.
C19_RecordedIffModelReturned ==
    req.endpoint \in FeatureEndpoints =>
        /\ RecordAttempts(req) = (IF Has(req.trace, "model_answered") THEN 1 ELSE 0)
        /\ Cardinality({i \in DOMAIN req.trace : req.trace[i] = "usage_recorded"})
              = RecordAttempts(req)
        /\ Has(req.trace, "model_failed")
              => (req.written = 0 /\ RecordAttempts(req) = 0)
        /\ (/\ req.endpoint \in JSONEndpoints
            /\ Has(req.trace, "parsed")
            /\ Undecodable(req.text))
              => RecordAttempts(req) = 1

\* C19 witness: recommend-style was answered after an answer that cannot be
\* decoded, its usage record written
C19_Witness ==
    /\ req.endpoint = "recommend-style"
    /\ Undecodable(req.text)
    /\ req.pc = "done"
    /\ req.written = 1
    /\ usageLog[req.user.id]["style_recommendation"] >= 1

\* a batch-process request that got past its gates
BatchStarted ==
    /\ req.endpoint = "batch-process"
    /\ Has(req.trace, "tier_allowed")

\* one lane per element of tasks, each recognised task's model call issued;
\* a finished lane of a recognised task ended on the outcome of its own
\* model call; the response is there only with every lane finished
LanesJoined ==
    BatchStarted =>
        /\ Len(lanes) = Len(req.tasks)
        /\ \A i \in DOMAIN lanes :
              /\ lanes[i].task = req.tasks[i]
              /\ lanes[i].task \in KnownTasks
                    => Has(lanes[i].trace, "model_called")
              /\ (lanes[i].pc = "done" /\ lanes[i].task \in KnownTasks)
                    => \/ Has(lanes[i].trace, "model_failed")
                       \/ Has(lanes[i].trace, "parsed")
        /\ req.pc = "done"
              => (/\ req.status = 200
                  /\ \A i \in DOMAIN lanes : lanes[i].pc = "done")

\* a step of a waiting batch changes one lane at most: no lane's end, failed
\* or not, touches another lane
OneLanePerStep ==
    (BatchStarted /\ req.pc = "joining" /\ req'.pc = "joining") =>
        \A i \in DOMAIN lanes : \A j \in DOMAIN lanes :
            (i # j /\ lanes'[i] # lanes[i]) => lanes'[j] = lanes[j]

\* C20: batch-process starts one lane per task and responds only after
\* every lane has finished; no lane's failure cancels or holds up another
\* lane; and, every model call returning or failing in the end, the
\* response is sent in the end.
C20_BatchJoinsEveryLane ==
    /\ []LanesJoined
    /\ [][OneLanePerStep]_vars
    /\ (BatchStarted /\ req.pc = "joining") ~> (BatchStarted /\ req.pc = "done")

\* C20 witness: a batch of two tasks was answered, the first lane's model
\* call failed and the second lane's was answered
C20_Witness ==
    /\ BatchStarted /\ req.pc = "done"
    /\ Len(lanes) = MaxTasks
    /\ Has(lanes[1].trace, "model_failed")
    /\ Has(lanes[MaxTasks].trace, "parsed")

\* C21 (as claimed, the sequential half): with requests executed one after
\* the other, a request that writes a usage record leaves the day's count of
\* its user and feature at or below the cap of the user's tier.
C21_SequentialStaysWithinCap ==
    (/\ req.endpoint \in FeatureEndpoints
     /\ req.user.subscriptionType \in Tiers
     /\ CapOf(req) # -1
     /\ req.written > 0)
        => usageLog[req.user.id][FeatureOf(req.endpoint)] <= CapOf(req)

\* C22 (as claimed): a request with no authenticated user is answered 401
\* on every endpoint, whatever its body, a body that fails input validation
\* included.
C22_UnauthenticatedIs401 ==
    (/\ req.endpoint # "none"
     /\ ~Authenticated(req)
     /\ req.pc = "done") => req.status = 401

\* the two endpoints that only read
ReadEndpoints == {"usage-stats", "usage-limits"}

\* a step in which the awaited quota check resolves leaves the usage log as
\* it is; so does every step of usage-stats and usage-limits, which issue no
\* model call either; and a step that changes the log is the recordUsage of
\* a feature invocation whose model call has just returned, adding one
\* record of that user and feature
RecordsOnlyByRecordUsage ==
    /\ req.pc = "checking" => usageLog' = usageLog
    /\ req'.endpoint \in ReadEndpoints
          => (usageLog' = usageLog /\ req'.modelCalls = 0 /\ req'.written = 0)
    /\ usageLog' # usageLog
          => (/\ req.endpoint \in FeatureEndpoints
              /\ req.pc = "calling"
              /\ Has(req'.trace, "usage_recorded")
              /\ usageLog' = recordUsage(usageLog, req.user.id,
                                         FeatureOf(req.endpoint)))

\* C23: the quota check and the two read endpoints leave the usage records
\* unchanged and issue no model call; records are added only by recordUsage
\* inside a feature invocation.
C23_ReadsLeaveLedgerUnchanged ==
    /\ [](req.pc = "checking" => req.modelCalls = 0)
    /\ [][RecordsOnlyByRecordUsage]_vars

\* C23 witness: usage-stats answered a user who has two usage records
C23_Witness ==
    /\ req.endpoint = "usage-stats"
    /\ req.pc = "done" /\ req.status = 200
    /\ UserRecords(usageLog, req.user.id) = 2

\* C24: a 200 response of optimize-content carries the original content
\* when the model answered with an empty (or absent) text and the model's
\* text when that is not empty; for non-empty content the result is never
\* the empty string.
C24_OptimizeIdentityFallback ==
    (/\ req.endpoint = "optimize-content"
     /\ Has(req.trace, "model_answered")
     /\ req.pc = "done") =>
        /\ req.status = 200
        /\ req.text = "" => req.body.optimizedContent = req.content
        /\ req.text # "" => req.body.optimizedContent = req.text
        /\ req.content # "" => req.body.optimizedContent # ""
        /\ req.body.originalContent = req.content

\* C24 witness: optimize-content answered 200 with the original content
\* after the model sent an empty text
C24_Witness ==
    /\ req.endpoint = "optimize-content"
    /\ req.content = "short" /\ req.text = ""
    /\ Has(req.trace, "model_answered")
    /\ req.pc = "done" /\ req.status = 200
    /\ req.body.optimizedContent = "short"

\* the statuses the handlers send
SentStatuses == {200, 400, 401, 403, 429, 500}

\* a handler invocation in progress or finished: no response sent yet while
\* it runs, exactly one once it is through
OneResponse ==
    req.endpoint # "none" =>
        /\ req.responses = (IF req.pc = "done" THEN 1 ELSE 0)
        /\ Cardinality({i \in DOMAIN req.trace : req.trace[i] = "responded"})
              = req.responses
        /\ req.pc = "done" => req.status \in SentStatuses

\* the handler's promise settles with one response sent
SettlesAfterOneResponse ==
    (req.endpoint # "none" /\ req'.endpoint = "none") => req.responses = 1

\* C25: every invocation of a controller handler sends exactly one
\* response, on every path: none while it runs, one when it is through, and
\* it is through only with that one response sent; in batch mode whatever
\* the lanes' outcomes.
C25_ExactlyOneResponse ==
    /\ []OneResponse
    /\ [][SettlesAfterOneResponse]_vars

\* C25 witness: a batch whose first lane failed has been answered, once
C25_Witness ==
    /\ req.endpoint = "batch-process"
    /\ Has(req.trace, "tier_allowed")
    /\ Len(lanes) = MaxTasks
    /\ Has(lanes[1].trace, "model_failed")
    /\ req.pc = "done" /\ req.responses = 1

\* C26: a feature request whose quota check answered false (a lookup of
\* checkUsageLimit having raised) is answered 429, with no model call
\* issued and no usage record written.
C26_RefusedCheckIs429 ==
    (req.endpoint \in FeatureEndpoints /\ Has(req.trace, "quota_refused")) =>
        /\ req.pc = "done" /\ req.status = 429
        /\ req.modelCalls = 0
        /\ ~Has(req.trace, "model_called")
        /\ RecordAttempts(req) = 0
        /\ ~Has(req.trace, "usage_recorded")

\* C26 witness: optimize-content answered 429 after its quota check was
\* refused
C26_Witness ==
    /\ req.endpoint = "optimize-content"
    /\ req.valid /\ Authenticated(req)
    /\ Has(req.trace, "quota_refused")
    /\ req.pc = "done" /\ req.status = 429

\* C27 (as claimed): a valid batch-process request of an authenticated user
\* is answered 403 exactly when the usage-limits response for the same user
\* reports features.batchProcess = false, a user without subscriptionType
\* included.
C27_BatchGateMatchesLimitsFlag ==
    (/\ req.endpoint = "batch-process"
     /\ req.valid /\ Authenticated(req)
     /\ req.pc = "done") =>
        (req.status = 403
            <=> ~UsageLimitsData(req.user).limits.features.batchProcess)

\* what the service method of a finished lane gave
LaneOutcome(lane, content) ==
    IF Has(lane.trace, "model_failed")
    THEN ServiceCatch(TaskFeature(lane.task))
    ELSE ServiceParse(TaskFeature(lane.task), lane.text, content)

\* the results object had the first n lanes ended in the order of the list
RECURSIVE InListOrder(_, _, _)
InListOrder(ls, n, content) ==
    IF n = 0 THEN <<>>
    ELSE LET before == InListOrder(ls, n - 1, content)
         IN  IF ls[n].task \in KnownTasks
             THEN LaneSettle(before, ls[n].task, LaneOutcome(ls[n], content))
             ELSE before

\* the keys a lane can write
LaneKeys(task) ==
    IF task \in KnownTasks THEN {ResultKey(task), ErrorKey(task)} ELSE {}

\* the names of the list differ pairwise
PairwiseDistinct(tasks) ==
    \A i \in DOMAIN tasks : \A j \in DOMAIN tasks :
        i # j => tasks[i] # tasks[j]

\* C28: for a task list of pairwise distinct names the lanes write disjoint
\* keys of results, and the results of the response are what the lanes'
\* outcomes give in the order of the list, in whatever order the lanes
\* ended.
C28_DistinctTasksOrderFree ==
    (BatchAnswered /\ PairwiseDistinct(req.tasks)) =>
        /\ \A i \in DOMAIN lanes : \A j \in DOMAIN lanes :
              i # j => LaneKeys(lanes[i].task) \cap LaneKeys(lanes[j].task) = {}
        /\ DOMAIN req.body = DOMAIN InListOrder(lanes, Len(lanes), req.content)
        /\ req.body = InListOrder(lanes, Len(lanes), req.content)

\* C28 witness: a batch of title and optimize was answered, the title lane
\* failed and the optimize lane gave its text
C28_Witness ==
    /\ BatchAnswered
    /\ req.tasks = <<"title", "optimize">>
    /\ DOMAIN req.body = {"titleError", "optimizedContent"}

\* a repeated task: the response holds the titles of one lane and the error
\* marker of the other
RepeatedTaskBothEntries ==
    /\ BatchAnswered
    /\ req.tasks = <<"title", "title">>
    /\ DOMAIN req.body = {"titles", "titleError"}

\* a repeated task, both lanes answered with different texts: the response
\* holds the titles of the first lane, which then ended last
RepeatedTaskFirstLaneLast ==
    /\ BatchAnswered
    /\ req.tasks = <<"title", "title">>
    /\ lanes[1].text = TitleLines /\ lanes[2].text = SixTitles
    /\ Has(lanes[1].trace, "parsed") /\ Has(lanes[2].trace, "parsed")
    /\ req.body.titles = ParseTitles(TitleLines)

\* the same lanes and texts, the second lane ended last
RepeatedTaskSecondLaneLast ==
    /\ BatchAnswered
    /\ req.tasks = <<"title", "title">>
    /\ lanes[1].text = TitleLines /\ lanes[2].text = SixTitles
    /\ Has(lanes[1].trace, "parsed") /\ Has(lanes[2].trace, "parsed")
    /\ req.body.titles = ParseTitles(SixTitles)

----------------------------------------------------------------------------
(* The editor page                                                          *)
(*                                                                          *)
(* EditorCore owns the Quill instance (quillRef), the title and the AI      *)
(* assistant drawer; AIAssistant owns the five result states of the panel.  *)
(* The AI store (useAIStore) is the environment: a call it was handed       *)
(* either resolves with a value or rejects.  Texts are character sequences, *)
(* so that String.prototype.trim is computed and not assumed.  The title    *)
(* style of the panel stays at its initial value 'professional'.            *)

\* at most MaxPending calls of the AI store are in flight
MaxPending == 1

\* what the user may have typed into the editor
UiContents == {<<>>, <<" ", "\n">>, <<" ", "a">>}

\* values the AI store resolves with
TitleResults == {<<>>, <<"T1">>, <<"T1", "T2">>}
\* the positions a rendered title list can have
TitlePositions == UNION {DOMAIN titles : titles \in TitleResults}
OptimizeResults == {<<"b">>}
OtherResults == {<<"r">>}

AssistantHandlers ==
    {"handleGenerateTitle", "handleOptimizeContent",
     "handleGetStyleRecommendations", "handleAnalyzeArticle",
     "handleGenerateSEO"}
EditorHandlers == {"handleAIOptimize", "handleGenerateTitle"}

\* a call of the AI store in flight, issued by a handler of a component
Call(component, handler, content) ==
    [component |-> component, handler |-> handler, content |-> content]

StoreValues(call) ==
    CASE call.handler = "handleGenerateTitle" -> TitleResults
      [] call.handler \in {"handleOptimizeContent", "handleAIOptimize"} ->
            OptimizeResults
      [] OTHER -> OtherResults

\* mutant of Blank: `if (!content)`, the text is not trimmed
BlankUntrimmed(content) == content = <<>>

\* `!currentContent.trim()` and `!content.trim()`
Blank(content) == ~Keep(content)

\* `currentContent={quillRef.current?.getText() || ''}`
currentContent(u) == IF u.quill THEN u.text ELSE <<>>

Remove(s, k) == [i \in 1..(Len(s) - 1) |-> IF i < k THEN s[i] ELSE s[i + 1]]

\* the five handlers of the assistant up to their await
AssistantEntry(u, handler) ==
    IF Blank(currentContent(u))
    THEN [u EXCEPT !.message = "warning"]
    ELSE [u EXCEPT !.pending =
              Append(@, Call("assistant", handler, currentContent(u)))]

\* handleAIOptimize and handleGenerateTitle of the editor up to their await
EditorEntry(u, handler) ==
    IF ~u.quill
    THEN u
    ELSE IF Blank(u.text)
         THEN [u EXCEPT !.message = "warning"]
         ELSE [u EXCEPT !.pending =
                   Append(@, Call("editor", handler, u.text))]

\* `titles.map(text => ({text, style: titleStyle, selected: false}))`
NewTitles(titles) ==
    [i \in 1..Len(titles) |->
        [text |-> titles[i], style |-> "professional", selected |-> FALSE]]

\* the statements of a handler after its await returned value
AfterAwait(u, call, value) ==
    LET set ==
        IF call.component = "editor"
        THEN CASE call.handler = "handleAIOptimize" -> [u EXCEPT !.text = value]
               [] OTHER -> [u EXCEPT !.title = value]
        ELSE CASE call.handler = "handleGenerateTitle" ->
                    [u EXCEPT !.generatedTitles = NewTitles(value)]
               [] call.handler = "handleOptimizeContent" ->
                    [u EXCEPT !.optimizedContent = value]
               [] call.handler = "handleGetStyleRecommendations" ->
                    [u EXCEPT !.styleRecommendations = value]
               [] call.handler = "handleAnalyzeArticle" ->
                    [u EXCEPT !.articleAnalysis = value]
               [] OTHER -> [u EXCEPT !.seoSuggestions = value]
    IN  [set EXCEPT !.message = "success"]

\* the catch block of a handler: message.error and nothing else
AfterCatch(u, call) == [u EXCEPT !.message = "error"]

\* mutant of SelectTitle: the other titles keep their mark
SelectTitleKeepsMarks(prev, index) ==
    [i \in 1..Len(prev) |->
        [prev[i] EXCEPT !.selected = (@ \/ i = index)]]

\* `prev.map((title, i) => ({...title, selected: i === index}))`; positions
\* are counted from 1 here and from 0 in the source
SelectTitle(prev, index) ==
    [i \in 1..Len(prev) |-> [prev[i] EXCEPT !.selected = (i = index)]]

\* the useEffect that creates the Quill instance and sets the initial content
EditorMounts(initialContent) ==
    /\ ~ui.quill
    /\ ui' = [ui EXCEPT !.quill = TRUE, !.text = initialContent]
    /\ UNCHANGED <<req, usageLog, lanes, results, parser>>

\* the user edits the text of the editor
UserTypes(content) ==
    /\ ui.quill
    /\ ui.text # content
    /\ ui' = [ui EXCEPT !.text = content]
    /\ UNCHANGED <<req, usageLog, lanes, results, parser>>

\* a button of the assistant panel starts one of its five handlers
AssistantClick(handler) ==
    /\ Blank(currentContent(ui)) \/ Len(ui.pending) < MaxPending
    /\ ui' = AssistantEntry(ui, handler)
    /\ UNCHANGED <<req, usageLog, lanes, results, parser>>

\* a toolbar button of the editor starts handleAIOptimize or handleGenerateTitle
EditorClick(handler) ==
    /\ ~ui.quill \/ Blank(ui.text) \/ Len(ui.pending) < MaxPending
    /\ ui' = EditorEntry(ui, handler)
    /\ UNCHANGED <<req, usageLog, lanes, results, parser>>

\* the AI store resolves the k-th call in flight
CallResolves(k, value) ==
    /\ k \in DOMAIN ui.pending
    /\ value \in StoreValues(ui.pending[k])
    /\ ui' = AfterAwait([ui EXCEPT !.pending = Remove(@, k)],
                        ui.pending[k], value)
    /\ UNCHANGED <<req, usageLog, lanes, results, parser>>

\* the AI store rejects the k-th call in flight
CallRejects(k) ==
    /\ k \in DOMAIN ui.pending
    /\ ui' = AfterCatch([ui EXCEPT !.pending = Remove(@, k)], ui.pending[k])
    /\ UNCHANGED <<req, usageLog, lanes, results, parser>>

\* a title of the rendered list is clicked
handleSelectTitle(index) ==
    /\ index \in DOMAIN ui.generatedTitles
    /\ ui' = [ui EXCEPT !.generatedTitles = SelectTitle(@, index)]
    /\ UNCHANGED <<req, usageLog, lanes, results, parser>>

\* the apply button of the panel hands the optimized content to the editor
handleApplyOptimization ==
    /\ ui.optimizedContent # <<>>
    /\ ui' = IF ui.quill
             THEN [ui EXCEPT !.text = ui.optimizedContent,
                             !.message = "success"]
             ELSE [ui EXCEPT !.message = "success"]
    /\ UNCHANGED <<req, usageLog, lanes, results, parser>>

NextUi ==
    \/ \E c \in UiContents : EditorMounts(c)
    \/ \E c \in UiContents : UserTypes(c)
    \/ \E h \in AssistantHandlers : AssistantClick(h)
    \/ \E h \in EditorHandlers : EditorClick(h)
    \/ \E k \in 1..MaxPending + 1, v \in TitleResults \cup OptimizeResults
                                        \cup OtherResults : CallResolves(k, v)
    \/ \E k \in 1..MaxPending + 1 : CallRejects(k)
    \/ \E i \in TitlePositions : handleSelectTitle(i)
    \/ handleApplyOptimization

SpecUi == Init /\ [][NextUi]_vars

----------------------------------------------------------------------------
(* The title list of the assistant panel *)

\* the positions of list that are marked selected
Selected(list) == {i \in DOMAIN list : list[i].selected}

\* the texts and styles of a title list, its marks left out
Unmarked(list) == [i \in DOMAIN list |-> [list[i] EXCEPT !.selected = FALSE]]

\* C29: the title list of the assistant panel never has more than one title
\* marked selected; selecting the title at a position of the list the panel
\* shows gives the same titles with exactly that position marked; and a step
\* in which a generation succeeded (the list's texts or length changed)
\* leaves every title unmarked
C29_AtMostOneSelected ==
    /\ [](/\ Cardinality(Selected(ui.generatedTitles)) <= 1
          /\ \A i \in DOMAIN ui.generatedTitles :
                LET next == SelectTitle(ui.generatedTitles, i)
                IN  /\ Selected(next) = {i}
                    /\ Unmarked(next) = Unmarked(ui.generatedTitles))
    /\ [][Unmarked(ui'.generatedTitles) # Unmarked(ui.generatedTitles)
            => Selected(ui'.generatedTitles) = {}]_vars

\* a list of two generated titles of which the second was selected, while a
\* further call of the AI store is in flight
C29_Witness ==
    /\ Len(ui.generatedTitles) = 2
    /\ Selected(ui.generatedTitles) = {2}
    /\ Len(ui.pending) > 0

----------------------------------------------------------------------------
(* Blank content and failed calls on the editor page *)

\* content is empty or consists of white space only
AllWhite(content) == \A i \in DOMAIN content : content[i] \in WhiteSpace

\* the state a call of the AI store writes when it succeeds
FieldOf(call) ==
    IF call.component = "editor"
    THEN IF call.handler = "handleAIOptimize" THEN "text" ELSE "title"
    ELSE CASE call.handler = "handleGenerateTitle" -> "generatedTitles"
           [] call.handler = "handleOptimizeContent" -> "optimizedContent"
           [] call.handler = "handleGetStyleRecommendations" ->
                "styleRecommendations"
           [] call.handler = "handleAnalyzeArticle" -> "articleAnalysis"
           [] OTHER -> "seoSuggestions"

ShownFields ==
    {"text", "title", "generatedTitles", "optimizedContent",
     "styleRecommendations", "articleAnalysis", "seoSuggestions"}

\* what the page shows in field, the selection marks of the titles left out
Shown(u, field) ==
    IF field = "generatedTitles" THEN Unmarked(u.generatedTitles) ELSE u[field]

====
